---- MODULE Spec2Model ----
(***************************************************************************)
(* Buddy allocator of buddy_alloc.c.                                       *)
(*                                                                         *)
(* The arena is struct buddy_allocator_t: max_order, page_size,            *)
(* shift_count, start_addr and one struct buddy_list_t per order.  Blocks  *)
(* are struct buddy_entry_t objects on the C heap.  A block is named by    *)
(* its place in the split tree: the root is 1 and new_entry[i] of a split  *)
(* of block p is 2p + i.  NULL is 0.                                       *)
(*                                                                         *)
(* A list (struct list_head_t, list.h) is a sequence of block names, the   *)
(* element after the list head first.                                      *)
(*                                                                         *)
(* Addresses stay below 2^16 for every arena constructed here, so the      *)
(* 32-bit unsigned sums of buddy_split_entry never wrap.                   *)
(***************************************************************************)
EXTENDS Integers, Sequences, FiniteSets, TLC

\* ---------------------------------------------------------------- bounds
\* largest max_order an arena is constructed with
MaxOrderBound == 2
\* largest request, in pages, that a caller makes
MaxPages == 3
\* most blocks a caller holds at one time
MaxHandles == 3

\* the <<page_size, start_addr>> pairs the arena is constructed with
Arenas == {<<2, 6>>, <<4096, 0>>}

NULL == 0

\* what free(entry->buddy) can do once entry itself has been released:
\*   "stale"  the released memory still holds the pointer, the buddy is freed
\*   "zero"   the released memory reads as NULL, free(NULL) does nothing
\*   "trap"   the released memory reads as garbage, free() aborts the process
UafOutcomes == {"stale", "zero", "trap"}

VARIABLES
    allocator,   \* struct buddy_allocator_t without its buddy_list
    buddy_list,  \* allocator->buddy_list: order -> struct buddy_list_t
    entries,     \* the struct buddy_entry_t objects the program refers to
    handles,     \* blocks returned by buddy_alloc, not yet given to buddy_free
    last,        \* the last operation that returned to its caller
    crashed,     \* the process was aborted
    driver       \* main(): its position, prog_args and its local variables

vars == <<allocator, buddy_list, entries, handles, last, crashed, driver>>

\* ---------------------------------------------------------------- helpers
\* ffs(3): index of the least significant set bit, counted from 1; 0 for 0
RECURSIVE ffs(_)
ffs(x) ==
    IF x = 0 THEN 0
    ELSE IF x % 2 = 1 THEN 1
    ELSE 1 + ffs(x \div 2)

\* list_add(new, head): new becomes the element right after the head
list_add(new, head) == <<new>> \o head

\* list_del(entry): entry is unlinked from whichever list holds it
list_del(bl, entry) ==
    [k \in DOMAIN bl |->
        [bl[k] EXCEPT
            !.used_entries = SelectSeq(@, LAMBDA x : x # entry),
            !.free_entries = SelectSeq(@, LAMBDA x : x # entry)]]

\* free(3) of one heap object
release(ent, entry) == [x \in DOMAIN ent \ {entry} |-> ent[x]]

\* the per-order counters as buddy_print_statistics prints them
Counts(bl) == [k \in DOMAIN bl |-> <<bl[k].free_count, bl[k].used_count>>]

\* what one call of an allocator function works on: the lists, the entries,
\* and what the call has done to the heap so far
\*   uaf     it has read an entry it had released
\*   leaked  it has unlinked an entry that it never released
\*   crashed it was aborted inside free()
Machine ==
    [bl |-> buddy_list, ent |-> entries,
     uaf |-> FALSE, leaked |-> FALSE, crashed |-> FALSE]

\* ---------------------------------------------------------------- allocator
buddy_add_free_entry(m, entry) ==
    LET order == m.ent[entry].order
        m1 == IF m.ent[entry].is_used
              THEN [m EXCEPT !.bl =
                       [list_del(m.bl, entry) EXCEPT ![order].used_count = @ - 1]]
              ELSE m
    IN  [m1 EXCEPT !.ent[entry].is_used = FALSE,
                   !.bl[order].free_entries = list_add(entry, @),
                   !.bl[order].free_count = @ + 1]

\* buddy_remove_free_entry without its free_count--
buddy_remove_free_entry_keeps_count(m, entry) ==
    LET order == m.ent[entry].order
        m1 == [m EXCEPT !.ent[entry].is_used = TRUE, !.bl = list_del(m.bl, entry)]
    IN  [m1 EXCEPT !.bl[order].used_entries = list_add(entry, @),
                   !.bl[order].used_count = @ + 1]

buddy_remove_free_entry(m, entry) ==
    LET order == m.ent[entry].order
        m1 == [m EXCEPT !.ent[entry].is_used = TRUE,
                        !.bl = [list_del(m.bl, entry) EXCEPT ![order].free_count = @ - 1]]
    IN  [m1 EXCEPT !.bl[order].used_entries = list_add(entry, @),
                   !.bl[order].used_count = @ + 1]

\* buddy_recycle_entry that takes both entries off free_count
buddy_recycle_entry_both_free(m, entry) ==
    LET order == m.ent[entry].order
        buddy == m.ent[entry].buddy
        bl1 == list_del(list_del(m.bl, entry), buddy)
        bl3 == [bl1 EXCEPT ![order].free_count = @ - 2]
        ent1 == release(m.ent, entry)
        m1 == [m EXCEPT !.bl = bl3, !.ent = ent1, !.uaf = TRUE]
    IN  { IF o = "stale" THEN [m1 EXCEPT !.ent = release(ent1, buddy)]
          ELSE IF o = "zero"
               THEN [m1 EXCEPT !.ent = release(ent1, buddy), !.leaked = TRUE]
          ELSE [m1 EXCEPT !.crashed = TRUE] : o \in UafOutcomes }

\* the outcomes of buddy_recycle_entry, one per outcome of the read of
\* entry->buddy that follows free(entry)
buddy_recycle_entry(m, entry) ==
    LET order == m.ent[entry].order
        buddy == m.ent[entry].buddy
        bl1 == list_del(list_del(m.bl, entry), buddy)
        bl2 == IF m.ent[entry].is_used
               THEN [bl1 EXCEPT ![order].used_count = @ - 1]
               ELSE [bl1 EXCEPT ![order].free_count = @ - 1]
        bl3 == IF m.ent[buddy].is_used
               THEN [bl2 EXCEPT ![order].used_count = @ - 1]
               ELSE [bl2 EXCEPT ![order].free_count = @ - 1]
        ent1 == release(m.ent, entry)
        m1 == [m EXCEPT !.bl = bl3, !.ent = ent1, !.uaf = TRUE]
    IN  { IF o = "stale" THEN [m1 EXCEPT !.ent = release(ent1, buddy)]
          ELSE IF o = "zero"
               THEN [m1 EXCEPT !.ent = release(ent1, buddy), !.leaked = TRUE]
          ELSE [m1 EXCEPT !.crashed = TRUE] : o \in UafOutcomes }

buddy_allocator_init(max_order, page_size, start_addr) ==
    LET first_entry == 1
        bl0 == [i \in 0..max_order |->
                   [used_count |-> 0, free_count |-> 0,
                    used_entries |-> <<>>, free_entries |-> <<>>]]
        ent0 == first_entry :>
                   [start_addr |-> start_addr, order |-> max_order,
                    buddy |-> NULL, parent |-> NULL, is_used |-> FALSE]
        m0 == [bl |-> bl0, ent |-> ent0,
               uaf |-> FALSE, leaked |-> FALSE, crashed |-> FALSE]
    IN  [alloc |-> [max_order |-> max_order, page_size |-> page_size,
                    shift_count |-> ffs(page_size) - 1, start_addr |-> start_addr],
         m |-> buddy_add_free_entry(m0, first_entry)]

\* buddy_split_entry that returns new_entry[0]
buddy_split_entry_first_child(m, entry) ==
    LET new_order == m.ent[entry].order - 1
        buddy_size == allocator.page_size * new_order
        new_entry == [i \in 0..1 |-> 2 * entry + i]
        fresh(i) == [start_addr |-> m.ent[entry].start_addr + i * buddy_size,
                     order |-> new_order, parent |-> entry,
                     is_used |-> FALSE, buddy |-> NULL]
        m1 == buddy_add_free_entry(
                  [m EXCEPT !.ent = (new_entry[0] :> fresh(0)) @@ @], new_entry[0])
        m2 == buddy_add_free_entry(
                  [m1 EXCEPT !.ent = (new_entry[1] :> fresh(1)) @@ @], new_entry[1])
    IN  [m |-> [m2 EXCEPT !.ent[new_entry[0]].buddy = new_entry[1],
                          !.ent[new_entry[1]].buddy = new_entry[0]],
         ret |-> new_entry[0]]

\* buddy_split_entry that links new_entry[1] to itself
buddy_split_entry_self_buddy(m, entry) ==
    LET new_order == m.ent[entry].order - 1
        buddy_size == allocator.page_size * new_order
        new_entry == [i \in 0..1 |-> 2 * entry + i]
        fresh(i) == [start_addr |-> m.ent[entry].start_addr + i * buddy_size,
                     order |-> new_order, parent |-> entry,
                     is_used |-> FALSE, buddy |-> NULL]
        m1 == buddy_add_free_entry(
                  [m EXCEPT !.ent = (new_entry[0] :> fresh(0)) @@ @], new_entry[0])
        m2 == buddy_add_free_entry(
                  [m1 EXCEPT !.ent = (new_entry[1] :> fresh(1)) @@ @], new_entry[1])
    IN  [m |-> [m2 EXCEPT !.ent[new_entry[0]].buddy = new_entry[1],
                          !.ent[new_entry[1]].buddy = new_entry[1]],
         ret |-> new_entry[1]]

buddy_split_entry(m, entry) ==
    LET new_order == m.ent[entry].order - 1
        buddy_size == allocator.page_size * new_order
        new_entry == [i \in 0..1 |-> 2 * entry + i]
        fresh(i) == [start_addr |-> m.ent[entry].start_addr + i * buddy_size,
                     order |-> new_order, parent |-> entry,
                     is_used |-> FALSE, buddy |-> NULL]
        m1 == buddy_add_free_entry(
                  [m EXCEPT !.ent = (new_entry[0] :> fresh(0)) @@ @], new_entry[0])
        m2 == buddy_add_free_entry(
                  [m1 EXCEPT !.ent = (new_entry[1] :> fresh(1)) @@ @], new_entry[1])
    IN  [m |-> [m2 EXCEPT !.ent[new_entry[0]].buddy = new_entry[1],
                          !.ent[new_entry[1]].buddy = new_entry[0]],
         ret |-> new_entry[1]]

RECURSIVE buddy_alloc_internal(_, _)

\* buddy_alloc_internal whose bound test is order >= max_order
buddy_alloc_internal_top_excluded(m, order) ==
    IF order >= allocator.max_order THEN [m |-> m, ret |-> NULL]
    ELSE IF m.bl[order].free_count > 0
    THEN LET buddy_entry == Head(m.bl[order].free_entries)
         IN  [m |-> buddy_remove_free_entry(m, buddy_entry), ret |-> buddy_entry]
    ELSE LET r == buddy_alloc_internal(m, order + 1)
         IN  IF r.ret # NULL
             THEN LET s == buddy_split_entry(r.m, r.ret)
                  IN  [m |-> buddy_remove_free_entry(s.m, s.ret), ret |-> s.ret]
             ELSE r

\* buddy_alloc_internal that gives up instead of splitting a larger block
buddy_alloc_internal_no_split(m, order) ==
    IF order > allocator.max_order THEN [m |-> m, ret |-> NULL]
    ELSE IF m.bl[order].free_count > 0
    THEN LET buddy_entry == Head(m.bl[order].free_entries)
         IN  [m |-> buddy_remove_free_entry(m, buddy_entry), ret |-> buddy_entry]
    ELSE [m |-> m, ret |-> NULL]

buddy_alloc_internal(m, order) ==
    IF order > allocator.max_order THEN [m |-> m, ret |-> NULL]
    ELSE IF m.bl[order].free_count > 0
    THEN LET buddy_entry == Head(m.bl[order].free_entries)
         IN  [m |-> buddy_remove_free_entry(m, buddy_entry), ret |-> buddy_entry]
    ELSE LET r == buddy_alloc_internal(m, order + 1)
         IN  IF r.ret # NULL
             THEN LET s == buddy_split_entry(r.m, r.ret)
                  IN  [m |-> buddy_remove_free_entry(s.m, s.ret), ret |-> s.ret]
             ELSE r

\* buddy_free_internal that never looks at the buddy
buddy_free_internal_no_merge(m, entry) == {buddy_add_free_entry(m, entry)}

\* buddy_free_internal that recycles the pair and forgets the parent
buddy_free_internal_no_cascade(m, entry) ==
    LET buddy == m.ent[entry].buddy
    IN  IF buddy # NULL
        THEN IF m.ent[buddy].is_used
             THEN {buddy_add_free_entry(m, entry)}
             ELSE buddy_recycle_entry(m, entry)
        ELSE {buddy_add_free_entry(m, entry)}

\* the set of states buddy_free_internal can leave behind
RECURSIVE buddy_free_internal(_, _)
buddy_free_internal(m, entry) ==
    LET buddy == m.ent[entry].buddy
        parent == m.ent[entry].parent
    IN  IF buddy # NULL
        THEN IF m.ent[buddy].is_used
             THEN {buddy_add_free_entry(m, entry)}
             ELSE UNION { IF r.crashed THEN {r}
                          ELSE IF parent # NULL THEN buddy_free_internal(r, parent)
                          ELSE {r} : r \in buddy_recycle_entry(m, entry) }
        ELSE {buddy_add_free_entry(m, entry)}

\* page_order that masks where it should shift: size & (page_size - 1)
page_order_mask(size) == size % (2 ^ allocator.shift_count)

\* page_order of buddy_alloc: size >> shift_count
page_order(size) == size \div (2 ^ allocator.shift_count)

buddy_alloc(m, size) == buddy_alloc_internal(m, page_order(size))

buddy_free(m, entry) == buddy_free_internal(m, entry)

\* ---------------------------------------------------------------- callers
\* the sizes a caller asks for: whole pages, one byte, one byte less than a page
RequestSizes ==
    { q * allocator.page_size : q \in 1..MaxPages } \cup {1, allocator.page_size - 1}

\* callers other than main(): main is not running
NoDriver == [pc |-> "none"]

Init ==
    \E max_order \in 0..MaxOrderBound, arena \in Arenas :
        LET a == buddy_allocator_init(max_order, arena[1], arena[2])
        IN  /\ allocator = a.alloc
            /\ buddy_list = a.m.bl
            /\ entries = a.m.ent
            /\ crashed = FALSE
            /\ driver = NoDriver
            /\ handles = {}
            /\ last = [op |-> "init", size |-> 0, order |-> max_order, ret |-> NULL,
                       pre |-> Counts(a.m.bl), rt |-> FALSE, again |-> FALSE,
                       uaf |-> FALSE, leaked |-> FALSE]

\* one call of buddy_alloc by a caller that keeps the returned block
\*   again: the call before this one was a failed buddy_alloc of no larger size
Alloc ==
    /\ ~crashed
    /\ last.op # "double_free"
    /\ \E size \in RequestSizes :
        LET r == buddy_alloc(Machine, size)
        IN  /\ r.ret # NULL => Cardinality(handles) < MaxHandles
            /\ buddy_list' = r.m.bl
            /\ entries' = r.m.ent
            /\ handles' = IF r.ret # NULL THEN handles \cup {r.ret} ELSE handles
            /\ last' = [op |-> "alloc", size |-> size, order |-> page_order(size),
                        ret |-> r.ret, pre |-> Counts(buddy_list), rt |-> FALSE,
                        again |-> (last.op = "alloc" /\ last.ret = NULL
                                   /\ last.size <= size),
                        uaf |-> FALSE, leaked |-> FALSE]
    /\ UNCHANGED <<allocator, crashed, driver>>

\* one call of buddy_free on a block the caller holds
\*   rt: the block is the one the call before this one, a buddy_alloc, returned
Free ==
    /\ ~crashed
    /\ last.op # "double_free"
    /\ \E entry \in handles :
        \E r \in buddy_free(Machine, entry) :
            /\ buddy_list' = r.bl
            /\ entries' = r.ent
            /\ crashed' = r.crashed
            /\ IF r.crashed
               THEN UNCHANGED <<handles, last>>
               ELSE /\ handles' = handles \ {entry}
                    /\ last' = [op |-> "free", size |-> 0,
                                order |-> entries[entry].order, ret |-> entry,
                                pre |-> Counts(buddy_list),
                                rt |-> (last.op = "alloc" /\ last.ret = entry),
                                again |-> FALSE,
                                uaf |-> r.uaf, leaked |-> r.leaked]
    /\ UNCHANGED <<allocator, driver>>

Next == Alloc \/ Free

Spec == Init /\ [][Next]_vars

\* a second buddy_free of the block that the call before, a buddy_free, put
\* on the free list of its order; the entry is then linked twice, and no
\* call follows such a free
DoubleFree ==
    /\ ~crashed
    /\ last.op # "double_free"
    /\ last.op = "free"
    /\ last.ret \in DOMAIN entries
    /\ \E r \in buddy_free(Machine, last.ret) :
            /\ buddy_list' = r.bl
            /\ entries' = r.ent
            /\ crashed' = r.crashed
            /\ last' = [op |-> "double_free", size |-> 0,
                        order |-> entries[last.ret].order, ret |-> last.ret,
                        pre |-> Counts(buddy_list), rt |-> FALSE, again |-> FALSE,
                        uaf |-> r.uaf, leaked |-> r.leaked]
    /\ UNCHANGED <<allocator, handles, driver>>

\* callers that may free a block twice
NextMisuse == Alloc \/ Free \/ DoubleFree

SpecMisuse == Init /\ [][NextMisuse]_vars

\* a fresh arena, of max_order up to MaxOrderBound + 1
InitFresh ==
    \E max_order \in 0..(MaxOrderBound + 1), arena \in Arenas :
        LET a == buddy_allocator_init(max_order, arena[1], arena[2])
        IN  /\ allocator = a.alloc
            /\ buddy_list = a.m.bl
            /\ entries = a.m.ent
            /\ crashed = FALSE
            /\ driver = NoDriver
            /\ handles = {}
            /\ last = [op |-> "init", size |-> 0, order |-> max_order, ret |-> NULL,
                       pre |-> Counts(a.m.bl), rt |-> FALSE, again |-> FALSE,
                       uaf |-> FALSE, leaked |-> FALSE]

\* one call of buddy_alloc by a caller that keeps every block and frees none
AllocFresh ==
    /\ \E size \in RequestSizes :
        LET r == buddy_alloc(Machine, size)
        IN  /\ buddy_list' = r.m.bl
            /\ entries' = r.m.ent
            /\ handles' = IF r.ret # NULL THEN handles \cup {r.ret} ELSE handles
            /\ last' = [op |-> "alloc", size |-> size, order |-> page_order(size),
                        ret |-> r.ret, pre |-> Counts(buddy_list), rt |-> FALSE,
                        again |-> (last.op = "alloc" /\ last.ret = NULL
                                   /\ last.size <= size),
                        uaf |-> FALSE, leaked |-> FALSE]
    /\ UNCHANGED <<allocator, crashed, driver>>

NextFresh == AllocFresh

\* allocations only, on a fresh arena
SpecFresh == InitFresh /\ [][NextFresh]_vars

\* ------------------------------------------------------------------- main
\* largest value given to --alloc-loop and to --sub-loop
MaxLoop == 2

PageSizes == {0, 2, 3, 4096}
AllocSizes == {1, 2, 4096}

\* what a read or a write outside an allocated array does
OobOutcomes == {"null", "wild"}

\* x & y of two non-negative ints
RECURSIVE BitAnd(_, _)
BitAnd(x, y) ==
    IF x = 0 \/ y = 0
    THEN 0
    ELSE 2 * BitAnd(x \div 2, y \div 2) + (IF x % 2 = 1 /\ y % 2 = 1 THEN 1 ELSE 0)

\* the static prog_args before parse_args
prog_args0 ==
    [max_order |-> 0, start_addr |-> 0, page_size |-> 0,
     alloc_loop |-> 0, alloc_size |-> 0, sub_loop |-> 0]

\* parse_args: opts are the options of the command line in their order, each
\* <<c, strtol(optarg)>>; the first invalid value returns -1
RECURSIVE parse_args(_, _)
parse_args(prog_args, opts) ==
    IF opts = <<>>
    THEN [rc |-> 0, prog_args |-> prog_args]
    ELSE LET c == Head(opts)[1]
             v == Head(opts)[2]
             stored == CASE c = "o" -> [prog_args EXCEPT !.max_order = v]
                         [] c = "s" -> [prog_args EXCEPT !.start_addr = v]
                         [] c = "p" -> [prog_args EXCEPT !.page_size = v]
                         [] c = "l" -> [prog_args EXCEPT !.alloc_loop = v]
                         [] c = "a" -> [prog_args EXCEPT !.alloc_size = v]
                         [] c = "n" -> [prog_args EXCEPT !.sub_loop = v]
             invalid == CASE c = "o" -> v = 0
                          [] c = "s" -> v < 0
                          [] c = "p" -> v = 0 \/ BitAnd(v, v - 1) # 0
                          [] c = "l" -> v < 0
                          [] c = "a" -> v < 0
                          [] c = "n" -> v < 0
         IN  IF invalid
             THEN [rc |-> 0 - 1, prog_args |-> stored]
             ELSE parse_args(stored, Tail(opts))

\* the process at the entry of main: alloc = {0}, count = 0, and a command
\* line that gives every option of the usage string
InitMain ==
    \E o \in (0 - 1)..MaxOrderBound, s \in {0, 6}, p \in PageSizes,
       l \in 0..MaxLoop, a \in AllocSizes, n \in 0..MaxLoop :
        /\ allocator = [max_order |-> 0, page_size |-> 0,
                        shift_count |-> 0, start_addr |-> 0]
        /\ buddy_list = <<>>
        /\ entries = <<>>
        /\ handles = {}
        /\ crashed = FALSE
        /\ last = [op |-> "none", size |-> 0, order |-> 0, ret |-> NULL,
                   pre |-> <<>>, rt |-> FALSE, again |-> FALSE,
                   uaf |-> FALSE, leaked |-> FALSE]
        /\ driver = [pc |-> "parse_args",
                     argv |-> <<<<"o", o>>, <<"s", s>>, <<"p", p>>,
                                <<"l", l>>, <<"a", a>>, <<"n", n>>>>,
                     prog_args |-> prog_args0,
                     parsed |-> 0, rc |-> 0,
                     alloc_entries |-> <<>>, count |-> 0, i |-> 0, j |-> 0,
                     oob |-> FALSE, freed |-> <<>>]

\* main up to the call of buddy_allocator_init: parse_args, then the
\* alloc_size check
MainParseArgs ==
    /\ ~crashed
    /\ driver.pc = "parse_args"
    /\ LET r == parse_args(driver.prog_args, driver.argv)
           ok == r.rc = 0 /\ ~(r.prog_args.alloc_size < r.prog_args.page_size)
       IN  driver' = [driver EXCEPT !.prog_args = r.prog_args,
                                    !.parsed = r.rc,
                                    !.rc = IF ok THEN 0 ELSE 0 - 1,
                                    !.pc = IF ok THEN "init" ELSE "exit"]
    /\ UNCHANGED <<allocator, buddy_list, entries, handles, last, crashed>>

\* the position of main after the allocation loops have advanced to (i, j)
AfterAlloc(d, i, j, count) ==
    IF d.prog_args.sub_loop = 0 \/ i >= d.prog_args.alloc_loop
    THEN [d EXCEPT !.pc = "free", !.i = count, !.j = 0, !.count = count]
    ELSE [d EXCEPT !.pc = "alloc", !.i = i, !.j = j, !.count = count]

\* main: buddy_allocator_init and the calloc of alloc_entries. With
\* max_order < 0 buddy_add_free_entry writes buddy_list[max_order], outside
\* the array: the write aborts the process or is lost
MainInit ==
    /\ ~crashed
    /\ driver.pc = "init"
    /\ \E outcome \in OobOutcomes :
        LET pa == driver.prog_args
            a == buddy_allocator_init(pa.max_order, pa.page_size, pa.start_addr)
            slots == pa.alloc_loop * pa.sub_loop
            d == [driver EXCEPT !.alloc_entries = [k \in 0..(slots - 1) |-> NULL]]
        IN  IF pa.max_order < 0 /\ outcome = "wild"
            THEN /\ crashed' = TRUE
                 /\ UNCHANGED <<allocator, buddy_list, entries, last, driver>>
            ELSE /\ crashed' = FALSE
                 /\ allocator' = a.alloc
                 /\ buddy_list' = IF pa.max_order < 0 THEN <<>> ELSE a.m.bl
                 /\ entries' = IF pa.max_order < 0
                               THEN 1 :> [start_addr |-> pa.start_addr,
                                          order |-> pa.max_order, buddy |-> NULL,
                                          parent |-> NULL, is_used |-> FALSE]
                               ELSE a.m.ent
                 /\ last' = [last EXCEPT !.op = "init", !.order = pa.max_order]
                 /\ driver' = AfterAlloc(d, 0, 0, 0)
    /\ UNCHANGED handles

\* main: one pass of the inner allocation loop
MainAlloc ==
    /\ ~crashed
    /\ driver.pc = "alloc"
    /\ LET size == driver.prog_args.alloc_size * 2 ^ driver.i
           r == buddy_alloc(Machine, size)
           d == [driver EXCEPT !.alloc_entries[driver.count] = r.ret]
           j == driver.j + 1
       IN  /\ buddy_list' = r.m.bl
           /\ entries' = r.m.ent
           /\ handles' = IF r.ret # NULL THEN handles \cup {r.ret} ELSE handles
           /\ last' = [last EXCEPT !.op = "alloc", !.size = size,
                                   !.order = page_order(size), !.ret = r.ret]
           /\ driver' = IF j < driver.prog_args.sub_loop
                        THEN AfterAlloc(d, driver.i, j, driver.count + 1)
                        ELSE AfterAlloc(d, driver.i + 1, 0, driver.count + 1)
    /\ UNCHANGED <<allocator, crashed>>

\* the position of main after the pass i of the free loop
AfterFree(d) ==
    IF d.i - 1 >= 0
    THEN [d EXCEPT !.i = @ - 1]
    ELSE [d EXCEPT !.i = @ - 1, !.pc = "exit", !.rc = 0]

\* main: one pass of the free loop, for (i = count; i >= 0; i--). A read of
\* alloc_entries[i] outside the array yields NULL or a wild pointer, and
\* buddy_free of a wild pointer aborts the process
MainFree ==
    /\ ~crashed
    /\ driver.pc = "free"
    /\ IF driver.i \notin DOMAIN driver.alloc_entries
       THEN \E outcome \in OobOutcomes :
               /\ crashed' = (outcome = "wild")
               /\ driver' = IF outcome = "wild"
                            THEN [driver EXCEPT !.oob = TRUE]
                            ELSE AfterFree([driver EXCEPT !.oob = TRUE])
               /\ UNCHANGED <<buddy_list, entries, handles, last>>
       ELSE IF driver.alloc_entries[driver.i] = NULL
       THEN /\ driver' = AfterFree(driver)
            /\ UNCHANGED <<buddy_list, entries, handles, last, crashed>>
       ELSE LET entry == driver.alloc_entries[driver.i]
            IN  \E r \in buddy_free(Machine, entry) :
                    /\ buddy_list' = r.bl
                    /\ entries' = r.ent
                    /\ crashed' = r.crashed
                    /\ handles' = handles \ {entry}
                    /\ last' = [last EXCEPT !.op = "free", !.ret = entry,
                                            !.uaf = r.uaf, !.leaked = r.leaked]
                    /\ driver' = AfterFree([driver EXCEPT !.freed = Append(@, entry)])
    /\ UNCHANGED allocator

NextMain == MainParseArgs \/ MainInit \/ MainAlloc \/ MainFree

\* one run of the program for each command line
SpecMain == InitMain /\ [][NextMain]_vars

\* ---------------------------------------------------------------- properties
Range(seq) == { seq[i] : i \in DOMAIN seq }

\* the blocks that sit in the free or the used container of some order
Contained ==
    UNION { Range(buddy_list[k].free_entries) \cup Range(buddy_list[k].used_entries) :
            k \in DOMAIN buddy_list }

\* the address range [Lo(b), Hi(b)) of a block
Lo(b) == entries[b].start_addr
Hi(b) == entries[b].start_addr + allocator.page_size * 2 ^ entries[b].order

Disjoint(a, b) == Hi(a) <= Lo(b) \/ Hi(b) <= Lo(a)

ArenaLo == allocator.start_addr
ArenaHi == allocator.start_addr + allocator.page_size * 2 ^ allocator.max_order

PostInit ==
    buddy_allocator_init(allocator.max_order, allocator.page_size, allocator.start_addr).m

\* C1: after init and after every alloc and free, the ranges of the blocks in
\* the free and used containers are pairwise disjoint and their union is
\* exactly the arena's range.
CoverInvariant ==
    ~crashed =>
        /\ \A a, b \in Contained : a # b => Disjoint(a, b)
        /\ \A b \in Contained : ArenaLo <= Lo(b) /\ Hi(b) <= ArenaHi
        /\ \A p \in 0..(2 ^ allocator.max_order - 1) :
               \E b \in Contained :
                   /\ Lo(b) <= ArenaLo + p * allocator.page_size
                   /\ ArenaLo + (p + 1) * allocator.page_size <= Hi(b)

\* C2: no two blocks that buddy_alloc returned and that were not given back to
\* buddy_free have overlapping address ranges.
HandlesDisjoint ==
    ~crashed => \A a, b \in handles : a # b => Disjoint(a, b)

\* C3: once every block that was returned has been freed, the arena is in its
\* post-init state: the root alone, free at max_order, every other counter 0.
NoLeak ==
    handles = {} => buddy_list = PostInit.bl /\ entries = PostInit.ent

\* blocks were allocated by splitting down two levels and all were freed
NoLeakWitness ==
    /\ handles = {}
    /\ last.op = "free"
    /\ last.order = 0
    /\ allocator.max_order = 2

\* C4: an alloc that succeeds followed at once by the free of the block it
\* returned leaves every free_count and used_count as before the alloc.
AllocFreeRoundTrip ==
    [][(/\ last.op = "alloc"
        /\ last.ret # NULL
        /\ last'.op = "free"
        /\ last'.ret = last.ret) => Counts(buddy_list') = last.pre]_vars

\* a block that alloc made by splitting was freed right away and coalesced
RoundTripWitness ==
    /\ last.op = "free"
    /\ last.rt
    /\ last.uaf
    /\ handles # {}

\* C5: a free of a block that is not in the used container of its order
\* leaves every container and every counter unchanged.
DoubleFreeRejected ==
    [][last'.op = "double_free" => buddy_list' = buddy_list /\ entries' = entries]_vars

\* C6: alloc at order k returns NULL exactly when k > max_order or the free
\* containers of all orders k..max_order are empty, and a block it returns
\* has order k.
Exhaustion ==
    [][(last'.op = "alloc" /\ last' # last) =>
          LET k == last'.order
          IN  /\ last'.ret = NULL <=>
                    \/ k > allocator.max_order
                    \/ \A j \in k..allocator.max_order :
                           buddy_list[j].free_entries = <<>>
              /\ last'.ret # NULL => entries'[last'.ret].order = k]_vars

\* an alloc within max_order found every container from its order up empty
ExhaustionWitness ==
    /\ last.op = "alloc"
    /\ last.ret = NULL
    /\ last.order <= allocator.max_order
    /\ last.order < allocator.max_order

\* C7: after an alloc that returned NULL, the next alloc, of a size at least
\* as large, returns NULL too.
ExhaustionMonotone ==
    [][(/\ last.op = "alloc"
        /\ last.ret = NULL
        /\ last'.op = "alloc"
        /\ last' # last
        /\ last'.size >= last.size) => last'.ret = NULL]_vars

\* two allocs in a row failed, the second of a larger size within max_order
ExhaustionMonotoneWitness ==
    /\ last.op = "alloc"
    /\ last.again
    /\ last.ret = NULL
    /\ last.order <= allocator.max_order
    /\ last.order > 0

\* C8: for every order, free_count is the number of blocks in the free list,
\* used_count the number of blocks in the used list, and neither is negative.
CounterConsistency ==
    \A k \in DOMAIN buddy_list :
        /\ buddy_list[k].free_count = Len(buddy_list[k].free_entries)
        /\ buddy_list[k].used_count = Len(buddy_list[k].used_entries)
        /\ buddy_list[k].free_count >= 0
        /\ buddy_list[k].used_count >= 0

\* after a free, some order has blocks in its free and in its used list
CounterConsistencyWitness ==
    /\ last.op = "free"
    /\ \E k \in DOMAIN buddy_list :
           buddy_list[k].free_count > 0 /\ buddy_list[k].used_count > 1

\* C9: a block that has been split is in no container while its children
\* exist.
SplitParentOut ==
    ~crashed =>
        \A c \in DOMAIN entries :
            entries[c].parent # NULL => entries[c].parent \notin Contained

\* the smallest k with page_size * 2^k >= s
RECURSIVE CeilOrder(_, _)
CeilOrder(s, k) ==
    IF allocator.page_size * 2 ^ k >= s THEN k ELSE CeilOrder(s, k + 1)

\* C10: alloc of a size s > 0 is served at the smallest order k with
\* page_size * 2^k >= s, and a block it returns has that order.
OrderIsCeilLog ==
    (last.op = "alloc" /\ last.size > 0) =>
        /\ last.order = CeilOrder(last.size, 0)
        /\ last.ret # NULL => entries[last.ret].order = CeilOrder(last.size, 0)

\* C13: the children of a split block p of order k are at p.start_addr and
\* at p.start_addr + page_size * 2^(k-1).
SplitAddresses ==
    ~crashed =>
        \A c \in DOMAIN entries :
            entries[c].parent # NULL =>
                entries[c].start_addr =
                    entries[entries[c].parent].start_addr
                    + (c % 2) * allocator.page_size * 2 ^ entries[c].order

\* C14: every block starts at a multiple of its size from the arena base.
Alignment ==
    \A b \in DOMAIN entries :
        (entries[b].start_addr - allocator.start_addr)
            % (allocator.page_size * 2 ^ entries[b].order) = 0

\* C15: between operations every block but the root has a buddy that is a
\* block, whose buddy it is, of the same order and the same parent, and a
\* parent that is a block of the next order; the root has neither.
FamilyLinks ==
    ~crashed =>
        \A b \in DOMAIN entries :
            IF b = 1
            THEN entries[b].buddy = NULL /\ entries[b].parent = NULL
            ELSE /\ entries[b].buddy \in DOMAIN entries
                 /\ entries[b].buddy # b
                 /\ entries[entries[b].buddy].buddy = b
                 /\ entries[entries[b].buddy].order = entries[b].order
                 /\ entries[entries[b].buddy].parent = entries[b].parent
                 /\ entries[b].parent \in DOMAIN entries
                 /\ entries[entries[b].parent].order = entries[b].order + 1

\* blocks of three orders exist after frees have coalesced some pair
FamilyLinksWitness ==
    /\ ~crashed
    /\ last.op = "free"
    /\ Cardinality(DOMAIN entries) >= 5
    /\ Cardinality(handles) >= 2

\* no block on a free list has its buddy on a free list
NoFreeBuddies ==
    ~crashed =>
        \A k \in DOMAIN buddy_list :
            \A b \in Range(buddy_list[k].free_entries) :
                entries[b].buddy \notin Range(buddy_list[k].free_entries)

\* a free of entry e merges e with its buddy exactly when the buddy is on the
\* free list before the call; a merge destroys both and frees the parent, and
\* without a merge e goes to the free list of its order
MergeRule ==
    (last'.op = "free" /\ last' # last) =>
        LET e == last'.ret
            k == entries[e].order
            b == entries[e].buddy
            merged == e \notin DOMAIN entries'
        IN  /\ merged <=> (b # NULL /\ b \in Range(buddy_list[k].free_entries))
            /\ merged =>
                   /\ b \notin DOMAIN entries'
                   /\ entries[e].parent \notin Range(buddy_list'[k + 1].used_entries)
            /\ ~merged => e \in Range(buddy_list'[k].free_entries)

\* C16: free merges a block with its buddy if and only if the buddy is free,
\* the merge cascades to the parent, and between operations no two buddies
\* are both on a free list.
MaximalCoalescing == []NoFreeBuddies /\ [][MergeRule]_vars

\* a free of an order-0 block merged twice, up to the root
MaximalCoalescingWitness ==
    /\ last.op = "free"
    /\ last.uaf
    /\ last.order = 0
    /\ allocator.max_order = 2
    /\ buddy_list[2].free_count = 1

\* C19: a free reads no field of a block it has destroyed, and afterwards no
\* container and no buddy or parent link refers to a destroyed block.
NoUseAfterDestroy ==
    /\ ~crashed
    /\ last.op = "free" => ~last.uaf
    /\ Contained \subseteq DOMAIN entries
    /\ \A b \in DOMAIN entries :
           /\ entries[b].buddy \in DOMAIN entries \cup {NULL}
           /\ entries[b].parent \in DOMAIN entries \cup {NULL}

\* C11: on a fresh arena, allocations of one order k succeed exactly
\* 2^(max_order - k) times; used_count[k] is then 2^(max_order - k) and the
\* next allocation of order k returns NULL.
Capacity ==
    LET k == last.order
    IN  (/\ last.op = "alloc"
         /\ k <= allocator.max_order
         /\ \A h \in handles : entries[h].order = k) =>
            /\ Cardinality(handles) <= 2 ^ (allocator.max_order - k)
            /\ buddy_list[k].used_count = Cardinality(handles)
            /\ last.ret = NULL =>
                   Cardinality(handles) = 2 ^ (allocator.max_order - k)

\* the fifth order-0 allocation on a fresh arena of max_order 2 failed
CapacityWitness ==
    /\ last.op = "alloc"
    /\ last.ret = NULL
    /\ last.order = 0
    /\ allocator.max_order = 2
    /\ Cardinality(handles) = 4
    /\ \A h \in handles : entries[h].order = 0

\* on a fresh arena of max_order 2, an order-1 alloc has followed the first
\* alloc, which was of order 0
AfterOrder0ThenOrder1 ==
    /\ allocator.max_order = 2
    /\ last.op = "alloc"
    /\ last.order = 1
    /\ Cardinality(handles \ {last.ret}) = 1
    /\ \A h \in handles \ {last.ret} : entries[h].order = 0

\* C17: on a fresh arena of max_order 2, alloc of order 0 then alloc of order
\* 1 both succeed, the second without a split, and leave free_count[0] = 1,
\* used_count[1] = 1 and free_count[2] = 0.
ReuseBeforeSplit ==
    AfterOrder0ThenOrder1 =>
        /\ last.ret # NULL
        /\ Cardinality(DOMAIN entries) = 5
        /\ buddy_list[0].free_count = 1
        /\ buddy_list[1].used_count = 1
        /\ buddy_list[2].free_count = 0

\* the first alloc on a fresh arena of max_order 3, page_size 4096 and
\* start_addr 0 was of order 0
AfterFirstOrder0 ==
    /\ allocator.max_order = 3
    /\ allocator.page_size = 4096
    /\ allocator.start_addr = 0
    /\ last.op = "alloc"
    /\ last.order = 0
    /\ handles \ {last.ret} = {}

FirstOrder0Counts ==
    /\ last.ret # NULL
    /\ \A k \in 0..2 : buddy_list[k].free_count = 1
    /\ buddy_list[3].free_count = 0
    /\ buddy_list[0].used_count = 1
    /\ entries[last.ret].order = 0

OptMaxOrder == driver.argv[1][2]
OptPageSize == driver.argv[3][2]

IsPowerOfTwo(x) == \E k \in 0..16 : x = 2 ^ k

\* C12: construction fails exactly when page_size is zero or not a power of
\* two, or max_order < 0; every max_order >= 0 (0 included) with a
\* power-of-two page_size is accepted and yields an arena whose only block is
\* the free root at order max_order.
ConfigChecked ==
    /\ driver.pc # "parse_args" =>
           (driver.parsed # 0 <=> (~IsPowerOfTwo(OptPageSize) \/ OptMaxOrder < 0))
    /\ last.op = "init" =>
           /\ allocator.max_order = OptMaxOrder
           /\ DOMAIN entries = {1}
           /\ entries[1].order = OptMaxOrder /\ ~entries[1].is_used
           /\ buddy_list[OptMaxOrder].free_entries = <<1>>

\* C20: the free loop of main passes to buddy_free exactly the non-NULL
\* handles stored at indices 0..count-1 of alloc_entries, each once, and never
\* reads alloc_entries at index count or beyond.
FreeLoopInRange ==
    /\ ~driver.oob
    /\ driver.pc = "exit" /\ driver.rc = 0 =>
           LET stored == { driver.alloc_entries[k] : k \in 0..(driver.count - 1) } \ {NULL}
           IN  /\ Range(driver.freed) = stored
               /\ Len(driver.freed) = Cardinality(stored)
====
